---- MODULE Spec2Model ----
(***************************************************************************)
(* Model of the tool-calling agent of MovieAgent:                          *)
(*   src/agent.py                      CinematographyAgent                 *)
(*   src/ConversationSummaryMemory.py  ConversationSummaryMemory           *)
(*   src/ToolExecutor.py               ToolExecutor                        *)
(*                                                                         *)
(* Text is a sequence of fragments: the empty text is << >>, Python's      *)
(* "a + b" is a \o b, and "if text:" is text # << >>.                      *)
(***************************************************************************)
EXTENDS Integers, Sequences, FiniteSets, TLC

(***************************************************************************)
(* Bounds of the exploration.                                              *)
(***************************************************************************)
MaxCfg == 1
MaxOps == 2
MaxRuns == 1
MaxIterArg == 2
MaxRetriesArg == 3
MaxCalls == 2
MaxMemOps == 4
MaxToolOps == 3
MaxDiskOps == 3
MaxListOps == 4
MaxLegacyCfg == 3
MaxLegacyOps == 4

(***************************************************************************)
(* Program constants.                                                      *)
(***************************************************************************)
DefaultMaxRetries == 3

Absent == "<absent>"
None == "<None>"

Marker == <<"\n\nUpdates from later conversation:\n">>
ConsistencyInstruction ==
    <<"\n\nUse the conversation summary (if provided) to stay consistent with past discussion.">>
SummaryHeader == <<"Conversation summary so far:\n">>
Fallback == <<"I apologize, I couldn't generate a response.">>
Apology == <<"I apologize, but I couldn't complete the task within the iteration limit.">>
ErrorPrefix == <<"Error: ">>
system_prompt == <<"You are an expert cinematography analyst ...">>

(***************************************************************************)
(* Generic helpers.                                                        *)
(***************************************************************************)
Range(s) == {s[i] : i \in 1..Len(s)}

IsPrefix(s, t) == Len(s) <= Len(t) /\ SubSeq(t, 1, Len(s)) = s

Count(s, x) == Cardinality({i \in 1..Len(s) : s[i] = x})

RECURSIVE Pow2(_)
Pow2(k) == IF k <= 0 THEN 1 ELSE 2 * Pow2(k - 1)

\* Python's s[-m:] for a list s and an integer m >= 0: the last m elements
\* when 1 <= m <= len(s), and the whole list when m = 0 (s[-0:] is s[0:])
\* or m > len(s).
LastSlice(s, m) ==
    IF m = 0 \/ m >= Len(s) THEN s ELSE SubSeq(s, Len(s) - m + 1, Len(s))

\* content of a message whose "content" is Python's None
NoneText == <<None>>

Truthy(text) == text # << >> /\ text # NoneText

\* The "tool_calls" value of a raw assistant message: the key may be absent,
\* hold null, or hold a list of entries.
TC(tag, entries) == [tag |-> tag, val |-> entries]
NoToolCalls == TC("absent", << >>)

Msg(role, content) ==
    [role |-> role, content |-> content, tool_call_id |-> Absent, tool_calls |-> NoToolCalls]

\* (variant: the tool message does not carry the id of its call)
ToolMsgWithoutId(id, content) ==
    [role |-> "tool", content |-> content, tool_call_id |-> Absent, tool_calls |-> NoToolCalls]

ToolMsg(id, content) ==
    [role |-> "tool", content |-> content, tool_call_id |-> id, tool_calls |-> NoToolCalls]

(***************************************************************************)
(* The environment: what the user, the model endpoint, the summarisation   *)
(* endpoint and the tools can produce.                                     *)
(***************************************************************************)
Titles == {"Inception", "Heat"}
Payloads == {"p1", "p2"}
Movie(k, p) == [Title |-> k, data |-> p]

UserTexts == {<<"Tell me about Inception">>, <<"What is color grading?">>}

\* AVAILABLE_TOOLS, in registration order
AVAILABLE_TOOLS ==
    <<"search_movie_by_title", "get_movie_ratings", "search_movies_list",
      "compare_movies", "get_cast_and_authors", "find_movies_by_min_imdb_rating">>

\* ToolExecutor.__init__: self.tools = {tool.name: tool for tool in tools}
tools == Range(AVAILABLE_TOOLS)

\* Serialized argument texts a model can send, and json.loads of them.
ArgsText(k) == <<"{\"title\": \"", k, "\"}">>
BadArgsText == <<"{\"title\": ">>

JsonDecodable(text) ==
    /\ text # NoneText
    /\ Len(text) = 3
    /\ text[1] = "{\"title\": \""
    /\ text[3] = "\"}"

JsonLoadsArgs(text) == [title |-> text[2]]

\* One entry of message["tool_calls"].
Entry(id, function, name, arguments) ==
    [id |-> id, function |-> function, name |-> name, arguments |-> arguments]

GoodCall(id, name, k) == Entry(id, "present", name, ArgsText(k))

\* Tool result texts (json.dumps of the tool's result dict) and other text
\* a tool can return.
ResultMovie(k, p) ==
    <<"{\"success\": true, \"movie\": {\"Title\": \"", k, "\", \"data\": \"", p, "\"}}">>
ResultMovieEmptyTitle(p) ==
    <<"{\"success\": true, \"movie\": {\"Title\": \"\", \"data\": \"", p, "\"}}">>
ResultFailure == <<"{\"success\": false, \"error\": \"Movie not found\"}">>
ResultNotJson == <<"Internal Server Error">>

ToolFault == <<"boom">>

\* Texts the summarisation endpoint can return (after .strip()).
SummaryTexts == {<< >>, <<"- Likes: Inception">>, <<"- Name: Ann">>}

\* requests.exceptions.RequestException raised by _call_llm: str(e)
RequestExceptions == {<<"ConnectionError">>, <<"HTTPError 500">>}

\* Response envelopes of the model endpoint (response.json()).
Response(choices, content, tool_calls) ==
    [choices |-> choices, message |-> [content |-> content, tool_calls |-> tool_calls]]

AnswerText == <<"Here is the answer">>

RText == Response("one", AnswerText, NoToolCalls)
RNoContent == Response("one", NoneText, NoToolCalls)
RMissingChoices == Response("absent", NoneText, NoToolCalls)
RNoChoices == Response("empty", NoneText, NoToolCalls)
RCall ==
    Response("one", NoneText,
             TC("list", <<GoodCall("call_1", "search_movie_by_title", "Inception")>>))
RTwoCalls ==
    Response("one", AnswerText,
             TC("list", <<GoodCall("call_1", "get_movie_ratings", "Heat"),
                          GoodCall("call_2", "nonexistent_tool", "Heat")>>))
RBadArgs ==
    Response("one", NoneText,
             TC("list", <<Entry("call_1", "present", "search_movie_by_title", BadArgsText)>>))
RMixed ==
    Response("one", NoneText,
             TC("list", <<Entry("call_1", "present", "search_movie_by_title", BadArgsText),
                          GoodCall("call_2", "nonexistent_tool", "Inception")>>))
RNoFunction ==
    Response("one", NoneText,
             TC("list", <<Entry("call_1", "absent", Absent, NoneText)>>))
RNullArgs ==
    Response("one", NoneText,
             TC("list", <<Entry("call_1", "present", "search_movie_by_title", NoneText)>>))
RNullToolCalls == Response("one", NoneText, TC("null", << >>))

Responses ==
    {RText, RNoContent, RMissingChoices, RNoChoices, RCall, RTwoCalls,
     RBadArgs, RMixed, RNoFunction, RNullArgs, RNullToolCalls}

\* no response received yet, and the None that _call_llm_with_retry returns
\* when it falls off its end
NoResponse == Response("unset", NoneText, NoToolCalls)
ReturnedNone == Response("None", NoneText, NoToolCalls)

(***************************************************************************)
(* ToolExecutor                                                            *)
(***************************************************************************)
Parsed(raised, calls, content) == [raised |-> raised, calls |-> calls, content |-> content]

\* The loop of parse_tool_calls over message["tool_calls"]: only
\* json.JSONDecodeError is caught (the entry is skipped); a missing
\* "function"/"name" key (KeyError) and null arguments (TypeError) propagate.
RECURSIVE ParseEntries(_, _, _)
ParseEntries(entries, acc, content) ==
    IF entries = << >> THEN Parsed("none", acc, content)
    ELSE LET e == Head(entries) IN
         IF e.function = "absent" \/ e.name = Absent
            THEN Parsed("KeyError", << >>, NoneText)
         ELSE IF e.arguments = NoneText
            THEN Parsed("TypeError", << >>, NoneText)
         ELSE IF ~JsonDecodable(e.arguments)
            THEN ParseEntries(Tail(entries), acc, content)
         ELSE ParseEntries(Tail(entries),
                           Append(acc, [id |-> e.id, name |-> e.name,
                                        arguments |-> JsonLoadsArgs(e.arguments)]),
                           content)

parse_tool_calls(resp) ==
    IF resp.choices = "None" THEN Parsed("AttributeError", << >>, NoneText)
    ELSE IF resp.choices = "empty" THEN Parsed("IndexError", << >>, NoneText)
    ELSE IF resp.choices = "absent" THEN Parsed("none", << >>, NoneText)
    ELSE IF resp.message.tool_calls.tag = "null" THEN Parsed("TypeError", << >>, NoneText)
    ELSE ParseEntries(resp.message.tool_calls.val, << >>, resp.message.content)

NotFoundText(name) == <<"{\"error\": \"Tool '", name, "' not found\"}">>
FailedText(msg) == <<"{\"error\": \"Tool execution failed: ">> \o msg \o <<"\"}">>

\* What a registered tool does when invoked: return a text or raise.
Returns(text) == [raises |-> FALSE, text |-> text]
Raises(msg) == [raises |-> TRUE, text |-> msg]
ToolOutcomes(tool_name) ==
    IF tool_name = "search_movie_by_title"
       THEN {Returns(ResultMovie("Inception", p)) : p \in Payloads}
                \cup {Returns(ResultMovieEmptyTitle("p1")), Returns(ResultFailure),
                       Raises(ToolFault)}
    ELSE IF tool_name \in tools
       THEN {Returns(ResultNotJson), Raises(ToolFault)}
    ELSE {Returns(<< >>)}

\* (variant: the fault of a tool is handed back as it is, not wrapped in
\* the error object)
execute_tool_bare_fault(tool_name, invocation) ==
    IF tool_name \notin tools THEN NotFoundText(tool_name) ELSE invocation.text

execute_tool(tool_name, invocation) ==
    IF tool_name \notin tools THEN NotFoundText(tool_name)
    ELSE IF invocation.raises THEN FailedText(invocation.text)
    ELSE invocation.text

\* json.loads(result) followed by the checks of run: result_data.get("success")
\* and "movie" in result_data, then movie.get("Title"). Text that is no JSON,
\* or JSON that is no object, raises inside the try block and is swallowed.
NoTrack == [track |-> FALSE, title |-> "", movie |-> Movie("", "")]

\* (variant: the tracking block never records anything)
TrackedMovieNever(result) == NoTrack

TrackedMovie(result) ==
    IF Len(result) = 5 /\ result[1] = ResultMovie("", "")[1]
       THEN [track |-> TRUE, title |-> result[2], movie |-> Movie(result[2], result[4])]
    ELSE IF Len(result) = 3 /\ result[1] = ResultMovieEmptyTitle("")[1]
       THEN [track |-> FALSE, title |-> "", movie |-> Movie("", result[2])]
    ELSE NoTrack

\* _extract_movie_titles on the user texts of UserTexts (the values the
\* regular expressions of the source yield on these literal inputs).
_extract_movie_titles(text) ==
    IF text = <<"Tell me about Inception">> THEN <<"Inception">> ELSE << >>

(***************************************************************************)
(* State                                                                   *)
(***************************************************************************)
VARIABLES
    \* ConversationSummaryMemory
    max_recent_messages, summarize_after,
    summary, history, movies_discussed, movie_context,
    \* position in run / _call_llm_with_retry, and who called the latter
    pc, caller,
    \* CinematographyAgent.run: arguments and locals
    user_input, max_iterations, iteration, messages, response, tool_calls, tc_idx,
    \* what the call handed back: the returned text, how it ended, and the
    \* exception raised by _call_llm_with_retry
    ret, outcome, llm_error,
    \* _call_llm_with_retry: locals, the waits passed to time.sleep and the
    \* results of the attempts of the current call
    attempt, max_retries, sleeps, attempt_log,
    \* the endpoint behind _call_llm during the current call
    gateway,
    \* number of direct calls and of runs made so far
    ops, runs,
    \* observation of the current run
    gateway_calls, attempts_made, summarize_calls, invoked,
    \* the most recent call on the memory
    last,
    \* the conversation file on disk, and the memory as it was when
    \* save_to_file last wrote that file
    file, saved,
    \* the list a caller got from get_recent_movies_discussed, the schemas a
    \* caller got from get_tool_schemas, and the legacy ConversationMemory
    listing, schemas, conversation_memory

cfgvars == <<max_recent_messages, summarize_after>>
memvars == <<summary, history, movies_discussed, movie_context>>
loopvars == <<user_input, max_iterations, iteration, messages, response, tool_calls, tc_idx>>
resvars == <<ret, outcome, llm_error>>
retryvars == <<attempt, max_retries, sleeps, attempt_log>>
envvars == <<caller, gateway>>
budgetvars == <<ops, runs>>
obsvars == <<gateway_calls, attempts_made, summarize_calls, invoked>>
diskvars == <<file, saved>>
auxvars == <<listing, schemas, conversation_memory>>
vars == <<cfgvars, memvars, pc, loopvars, resvars, retryvars, envvars,
          budgetvars, obsvars, last, diskvars, auxvars>>

\* The JSON document of the conversation file. A key of the top-level
\* object may be missing; data.get(key, default) then yields the default.
Field(v) == [present |-> TRUE, val |-> v]
NoField == [present |-> FALSE, val |-> << >>]
Get(field, default) == IF field.present THEN field.val ELSE default

Document(s, h, md, mc) ==
    [summary |-> s, history |-> h, movies_discussed |-> md, movie_context |-> mc]

\* a message as a JSON object {"role": ..., "content": ...}, and back
JsonMessage(m) == [role |-> m.role, content |-> m.content]
FromJsonMessage(j) == Msg(j.role, j.content)

EmptyDocument == Document(NoField, NoField, NoField, NoField)
SummaryOnlyDocument == Document(Field(<<"- Name: Ann">>), NoField, NoField, NoField)

\* what open() and json.load() can find: no file, text that is no JSON,
\* JSON that is no object (a list), or an object
File(kind, data) == [kind |-> kind, data |-> data]
MissingFile == File("missing", EmptyDocument)
CorruptFile == File("corrupt", EmptyDocument)
NotObjectFile == File("not_object", EmptyDocument)
ExternalFiles ==
    {MissingFile, CorruptFile, NotObjectFile,
     File("object", EmptyDocument), File("object", SummaryOnlyDocument)}

Snapshot(valid, s, h, md, mc) ==
    [valid |-> valid, summary |-> s, history |-> h,
     movies_discussed |-> md, movie_context |-> mc]
NoSnapshot == Snapshot(FALSE, << >>, << >>, << >>, << >>)

LastOp(op, key, movie, present, old) ==
    [op |-> op, key |-> key, movie |-> movie, present |-> present, old |-> old]
NoMovie == Movie("", "")
Op(name) == LastOp(name, "", NoMovie, FALSE, NoMovie)

\* a list held by a caller: its items, and whether it is the very list
\* object of memory.movies_discussed
Listing(items, shared) == [held |-> TRUE, items |-> items, shared |-> shared]
NoListing == [held |-> FALSE, items |-> << >>, shared |-> FALSE]

\* ConversationMemory.__init__: no message, the given max_messages;
\* "clock" counts the Message objects built so far (their timestamps)
LegacyMemory(max_messages, msgs, clock) ==
    [max_messages |-> max_messages, messages |-> msgs, clock |-> clock]
NoLegacyMemory == LegacyMemory(0, << >>, 0)

\* ConversationSummaryMemory.__init__ and CinematographyAgent.__init__
Init ==
    /\ max_recent_messages \in 0..MaxCfg
    /\ summarize_after \in 0..MaxCfg
    /\ summary = << >>
    /\ history = << >>
    /\ movies_discussed = << >>
    /\ movie_context = << >>
    /\ pc = "idle"
    /\ caller = "none"
    /\ user_input = << >>
    /\ max_iterations = 0
    /\ iteration = 0
    /\ messages = << >>
    /\ response = NoResponse
    /\ tool_calls = << >>
    /\ tc_idx = 0
    /\ ret = NoneText
    /\ outcome = "NONE"
    /\ llm_error = << >>
    /\ attempt = 0
    /\ max_retries = DefaultMaxRetries
    /\ sleeps = << >>
    /\ attempt_log = << >>
    /\ gateway = "any"
    /\ ops = 0
    /\ runs = 0
    /\ gateway_calls = 0
    /\ attempts_made = 0
    /\ summarize_calls = 0
    /\ invoked = << >>
    /\ last = Op("init")
    /\ file = MissingFile
    /\ saved = NoSnapshot
    /\ listing = NoListing
    /\ schemas = << >>
    /\ conversation_memory = NoLegacyMemory

(***************************************************************************)
(* ConversationSummaryMemory                                               *)
(***************************************************************************)
\* (variant: the turn is stored under the system role)
AddMessageAsSystem(h, role, text) == Append(h, Msg("system", text))

\* add_message: self.history.append({"role": role, "content": content})
AddMessage(h, role, text) == Append(h, Msg(role, text))

\* (variant: the new summary replaces the old one)
MergedSummaryOverwrite(old, new) == new

\* maybe_summarize: the merge of the old summary and the new one
MergedSummary(old, new) ==
    IF old # << >> THEN old \o Marker \o new ELSE new

\* (variant: the first turns are kept instead of the last ones)
RetainedFirst(h, m) == SubSeq(h, 1, IF m <= Len(h) THEN m ELSE Len(h))

\* (variant: the slice lost its minus sign, history[max_recent_messages:])
RetainedFromIndex(h, m) == IF m >= Len(h) THEN << >> ELSE SubSeq(h, m + 1, Len(h))

\* maybe_summarize: self.history = self.history[-self.max_recent_messages:]
Retained(h, m) == LastSlice(h, m)

\* (variant: compaction fires already when the threshold is reached)
SummarizeFiresAtThreshold == Len(history) >= summarize_after

\* maybe_summarize: the test "len(self.history) <= self.summarize_after" fails
SummarizeFires == Len(history) > summarize_after

\* (variant: the summary turn is put after the raw history)
build_prompt_summary_last(base_system_prompt, sum, h) ==
    <<Msg("system", base_system_prompt \o ConsistencyInstruction)>>
        \o h
        \o (IF sum # << >> THEN <<Msg("system", SummaryHeader \o sum)>> ELSE << >>)

\* build_prompt
build_prompt(base_system_prompt, sum, h) ==
    <<Msg("system", base_system_prompt \o ConsistencyInstruction)>>
        \o (IF sum # << >> THEN <<Msg("system", SummaryHeader \o sum)>> ELSE << >>)
        \o h

\* (variant: the title is appended without the membership test)
DiscussedAfterAddAlways(md, title) ==
    IF title # "" THEN Append(md, title) ELSE md

\* (variant: the list is replaced by the new title instead of extended)
DiscussedAfterAddOnly(md, title) ==
    IF title # "" /\ title \notin Range(md) THEN <<title>> ELSE md

\* add_movie_to_context: the two assignments
DiscussedAfterAdd(md, title) ==
    IF title # "" /\ title \notin Range(md) THEN Append(md, title) ELSE md

\* (variant: the data is stored under the key even when the key is empty)
ContextAfterAddAnyKey(mc, title, movie_data) ==
    [k \in DOMAIN mc \cup {title} |-> IF k = title THEN movie_data ELSE mc[k]]

ContextAfterAdd(mc, title, movie_data) ==
    IF title # ""
       THEN [k \in DOMAIN mc \cup {title} |-> IF k = title THEN movie_data ELSE mc[k]]
       ELSE mc

PriorMovie(mc, title) == IF title \in DOMAIN mc THEN mc[title] ELSE NoMovie

\* direct call of memory.add_message
add_message(role, text, limit) ==
    /\ pc = "idle" /\ ops < limit
    /\ history' = AddMessage(history, role, text)
    /\ ops' = ops + 1
    /\ last' = Op("add_message")
    /\ UNCHANGED <<summary, movies_discussed, movie_context, runs, pc>>
    /\ UNCHANGED <<cfgvars, diskvars, auxvars, loopvars, resvars, retryvars, envvars, obsvars>>

\* direct call of memory.maybe_summarize; the summarisation call returns a
\* text or raises, and a raise leaves the memory as it was
maybe_summarize(limit) ==
    /\ pc = "idle" /\ ops < limit
    /\ ops' = ops + 1
    /\ IF ~SummarizeFires
          THEN /\ last' = Op("maybe_summarize:skipped")
               /\ UNCHANGED <<summary, history>>
          ELSE \/ \E new_summary \in SummaryTexts :
                    /\ summary' = MergedSummary(summary, new_summary)
                    /\ history' = Retained(history, max_recent_messages)
                    /\ last' = Op("maybe_summarize:fired")
               \/ /\ last' = Op("maybe_summarize:raised")
                  /\ UNCHANGED <<summary, history>>
    /\ UNCHANGED <<movies_discussed, movie_context, runs, pc>>
    /\ UNCHANGED <<cfgvars, diskvars, auxvars, loopvars, resvars, retryvars, envvars, obsvars>>

\* direct call of memory.build_prompt(system_prompt); the result is kept
\* in messages
direct_build_prompt(limit) ==
    /\ pc = "idle" /\ ops < limit
    /\ ops' = ops + 1
    /\ messages' = build_prompt(system_prompt, summary, history)
    /\ last' = Op("build_prompt")
    /\ UNCHANGED <<memvars, cfgvars, diskvars, auxvars, resvars, retryvars, envvars, obsvars, runs, pc>>
    /\ UNCHANGED <<user_input, max_iterations, iteration, response, tool_calls, tc_idx>>

\* direct call of memory.add_movie_to_context
add_movie_to_context(title, movie_data, limit) ==
    /\ pc = "idle" /\ ops < limit
    /\ movies_discussed' = DiscussedAfterAdd(movies_discussed, title)
    /\ movie_context' = ContextAfterAdd(movie_context, title, movie_data)
    /\ ops' = ops + 1
    /\ last' = LastOp("add_movie_to_context", title, movie_data,
                      title \in Range(movies_discussed),
                      PriorMovie(movie_context, title))
    /\ UNCHANGED <<summary, history, runs, pc>>
    /\ UNCHANGED <<cfgvars, diskvars, auxvars, loopvars, resvars, retryvars, envvars, obsvars>>

\* (variant: the saved object lacks the "movie_context" key)
SavedDocumentWithoutContext(s, h, md, mc) ==
    Document(Field(s), Field([i \in 1..Len(h) |-> JsonMessage(h[i])]), Field(md), NoField)

\* save_to_file: the object handed to json.dump
SavedDocument(s, h, md, mc) ==
    Document(Field(s), Field([i \in 1..Len(h) |-> JsonMessage(h[i])]), Field(md), Field(mc))

\* load_from_file: the four assignments from data.get(key, default)
LoadedHistory(doc) ==
    LET h == Get(doc.history, << >>) IN [i \in 1..Len(h) |-> FromJsonMessage(h[i])]

\* the result of a load, kept in last.key
LoadResult(f) ==
    IF f.kind = "object" THEN "loaded"
    ELSE IF f.kind \in {"missing", "corrupt"} THEN "warning"
    ELSE "raised"

\* direct call of memory.save_to_file()
save_to_file(limit) ==
    /\ pc = "idle" /\ ops < limit
    /\ file' = File("object",
                    SavedDocument(summary, history, movies_discussed, movie_context))
    /\ saved' = Snapshot(TRUE, summary, history, movies_discussed, movie_context)
    /\ ops' = ops + 1
    /\ last' = Op("save_to_file")
    /\ UNCHANGED <<memvars, cfgvars, auxvars, loopvars, resvars, retryvars, envvars, obsvars>>
    /\ UNCHANGED <<runs, pc>>

\* direct call of memory.load_from_file(): FileNotFoundError and
\* json.JSONDecodeError are caught and reported by a warning; data.get on
\* JSON that is no object raises AttributeError, which is not caught; in
\* all three cases no field has been assigned
load_from_file(limit) ==
    /\ pc = "idle" /\ ops < limit
    /\ IF file.kind = "object"
          THEN /\ summary' = Get(file.data.summary, << >>)
               /\ history' = LoadedHistory(file.data)
               /\ movies_discussed' = Get(file.data.movies_discussed, << >>)
               /\ movie_context' = Get(file.data.movie_context, << >>)
          ELSE UNCHANGED memvars
    /\ ops' = ops + 1
    /\ last' = LastOp("load_from_file", LoadResult(file), NoMovie, FALSE, NoMovie)
    /\ UNCHANGED <<cfgvars, diskvars, auxvars, loopvars, resvars, retryvars, envvars, obsvars>>
    /\ UNCHANGED <<runs, pc>>

\* the file is deleted, damaged or replaced outside the program
file_changes(f, limit) ==
    /\ pc = "idle" /\ ops < limit
    /\ f # file
    /\ file' = f
    /\ saved' = NoSnapshot
    /\ ops' = ops + 1
    /\ last' = Op("file_changes")
    /\ UNCHANGED <<memvars, max_recent_messages, summarize_after, auxvars>>
    /\ UNCHANGED <<loopvars, resvars, retryvars, envvars, obsvars, runs, pc>>

\* the program is started again: __init__ builds a fresh memory
restart(limit) ==
    /\ pc = "idle" /\ ops < limit
    /\ summary' = << >>
    /\ history' = << >>
    /\ movies_discussed' = << >>
    /\ movie_context' = << >>
    /\ ops' = ops + 1
    /\ last' = Op("restart")
    /\ UNCHANGED <<cfgvars, diskvars, auxvars, loopvars, resvars, retryvars, envvars, obsvars>>
    /\ UNCHANGED <<runs, pc>>

(***************************************************************************)
(* CinematographyAgent._call_llm_with_retry                                *)
(***************************************************************************)
\* wait_time = 2 ** attempt
WaitTime(k) == Pow2(k)

\* if attempt == max_retries - 1: raise
IsLastAttempt(k, n) == k = n - 1

\* (variant: a successful attempt does not end the call)
AttemptEndsCallOnlyWhenLast(succeeded, k, n) == IsLastAttempt(k, n)

\* the attempt ends the call: "return self._call_llm(...)" when it succeeded,
\* the raise of the last attempt when it failed
AttemptEndsCall(succeeded, k, n) == succeeded \/ IsLastAttempt(k, n)

\* Exception(f"LLM API failed after {max_retries} retries: {str(e)}")
TerminalFailure(n, e) == <<"LLM API failed after ", ToString(n), " retries: ">> \o e

\* the responses the endpoint can give in the current call
Yields(resp) ==
    LET p == parse_tool_calls(resp) IN p.raised = "none" /\ p.calls # << >>

CanSucceed(resp) ==
    \/ gateway = "any"
    \/ gateway = "always_tool_calls" /\ Yields(resp)

CanFail == gateway \in {"any", "always_fails"}

\* one pass through the body of "for attempt in range(max_retries)": _call_llm
\* returns the decoded 2xx response or raises a RequestException
call_llm_attempt ==
    /\ pc = "call_llm"
    /\ attempt < max_retries
    /\ attempts_made' = attempts_made + 1
    /\ \/ \E resp \in Responses :
            /\ CanSucceed(resp)
            /\ attempt_log' = Append(attempt_log, "ok")
            /\ IF AttemptEndsCall(TRUE, attempt, max_retries)
                  THEN /\ response' = resp
                       /\ pc' = IF caller = "run" THEN "parse" ELSE "returned"
                       /\ outcome' = IF caller = "run" THEN outcome ELSE "LLM_RETURNED"
                       /\ UNCHANGED <<attempt, sleeps>>
                  ELSE /\ sleeps' = Append(sleeps, WaitTime(attempt))
                       /\ attempt' = attempt + 1
                       /\ UNCHANGED <<pc, outcome, response>>
            /\ UNCHANGED llm_error
       \/ \E e \in RequestExceptions :
            /\ CanFail
            /\ attempt_log' = Append(attempt_log, "failed")
            /\ IF AttemptEndsCall(FALSE, attempt, max_retries)
                  THEN /\ llm_error' = TerminalFailure(max_retries, e)
                       /\ pc' = IF caller = "run" THEN "except" ELSE "returned"
                       /\ outcome' = IF caller = "run" THEN outcome ELSE "LLM_RAISED"
                       /\ UNCHANGED <<attempt, sleeps>>
                  ELSE /\ sleeps' = Append(sleeps, WaitTime(attempt))
                       /\ attempt' = attempt + 1
                       /\ UNCHANGED <<pc, outcome, llm_error>>
            /\ UNCHANGED response
    /\ UNCHANGED <<memvars, cfgvars, diskvars, auxvars, envvars, budgetvars, last, ret, max_retries>>
    /\ UNCHANGED <<user_input, max_iterations, iteration, messages, tool_calls, tc_idx>>
    /\ UNCHANGED <<gateway_calls, summarize_calls, invoked>>

\* range(max_retries) is exhausted without a return or a raise: the
\* function falls off its end and returns None
call_llm_falls_through ==
    /\ pc = "call_llm"
    /\ attempt >= max_retries
    /\ response' = ReturnedNone
    /\ pc' = IF caller = "run" THEN "parse" ELSE "returned"
    /\ outcome' = IF caller = "run" THEN outcome ELSE "LLM_RETURNED_NONE"
    /\ UNCHANGED <<memvars, cfgvars, diskvars, auxvars, retryvars, envvars, budgetvars, obsvars, last>>
    /\ UNCHANGED <<user_input, max_iterations, iteration, messages, tool_calls, tc_idx>>
    /\ UNCHANGED <<ret, llm_error>>

\* direct call of _call_llm_with_retry(messages, max_retries = n)
call_llm_with_retry(n, gw, limit) ==
    /\ pc = "idle" /\ ops < limit
    /\ pc' = "call_llm"
    /\ caller' = "direct"
    /\ gateway' = gw
    /\ max_retries' = n
    /\ attempt' = 0
    /\ sleeps' = << >>
    /\ attempt_log' = << >>
    /\ attempts_made' = 0
    /\ gateway_calls' = 1
    /\ response' = NoResponse
    /\ outcome' = "CALLING"
    /\ ops' = ops + 1
    /\ last' = Op("_call_llm_with_retry")
    /\ UNCHANGED <<memvars, cfgvars, diskvars, auxvars, runs, ret, llm_error, summarize_calls, invoked>>
    /\ UNCHANGED <<user_input, max_iterations, iteration, messages, tool_calls, tc_idx>>

(***************************************************************************)
(* CinematographyAgent.run                                                 *)
(***************************************************************************)
\* an exception leaves run
RunRaises ==
    /\ pc' = "returned"
    /\ outcome' = "RAISED"
    /\ ret' = NoneText

\* run returns text after appending it as the assistant turn
RunReturns(h, text, how) ==
    /\ history' = AddMessage(h, "assistant", text)
    /\ ret' = text
    /\ outcome' = how
    /\ pc' = "returned"

\* (variant: the description is returned without the prefix)
ErrorMsgNoPrefix(e) == e

\* error_msg = f"Error: {str(e)}"
ErrorMsg(e) == ErrorPrefix \o e

\* final_answer = content or "I apologize, I couldn't generate a response."
FinalAnswer(content) == IF Truthy(content) THEN content ELSE Fallback

\* (variant: every extracted title is appended, without the membership test)
MergeTitlesAlways(md, titles) == md \o titles

\* the loop over potential_movies on the final-answer path
RECURSIVE MergeTitles(_, _)
MergeTitles(md, titles) ==
    IF titles = << >> THEN md
    ELSE MergeTitles(IF Head(titles) \notin Range(md) THEN Append(md, Head(titles)) ELSE md,
                     Tail(titles))

\* run, lines 210-211: the user turn is stored
run(u, mi, gw) ==
    /\ pc = "idle" /\ runs < MaxRuns
    /\ runs' = runs + 1
    /\ history' = AddMessage(history, "user", u)
    /\ user_input' = u
    /\ max_iterations' = mi
    /\ gateway' = gw
    /\ caller' = "run"
    /\ pc' = "maybe_summarize"
    /\ iteration' = 0
    /\ messages' = << >>
    /\ response' = NoResponse
    /\ tool_calls' = << >>
    /\ tc_idx' = 0
    /\ ret' = NoneText
    /\ outcome' = "RUNNING"
    /\ llm_error' = << >>
    /\ attempt' = 0
    /\ max_retries' = DefaultMaxRetries
    /\ sleeps' = << >>
    /\ attempt_log' = << >>
    /\ gateway_calls' = 0
    /\ attempts_made' = 0
    /\ summarize_calls' = 0
    /\ invoked' = << >>
    /\ last' = Op("run")
    /\ UNCHANGED <<summary, movies_discussed, movie_context, cfgvars, diskvars, auxvars, ops>>

\* run, line 213: self.memory.maybe_summarize()
run_maybe_summarize ==
    /\ pc = "maybe_summarize"
    /\ IF ~SummarizeFires
          THEN /\ pc' = "build_prompt"
               /\ UNCHANGED <<summary, history, summarize_calls, outcome, ret>>
          ELSE /\ summarize_calls' = summarize_calls + 1
               /\ \/ \E new_summary \in SummaryTexts :
                       /\ summary' = MergedSummary(summary, new_summary)
                       /\ history' = Retained(history, max_recent_messages)
                       /\ pc' = "build_prompt"
                       /\ UNCHANGED <<outcome, ret>>
                  \/ /\ RunRaises
                     /\ UNCHANGED <<summary, history>>
    /\ UNCHANGED <<movies_discussed, movie_context, cfgvars, diskvars, auxvars, loopvars, retryvars>>
    /\ UNCHANGED <<envvars, budgetvars, last, llm_error>>
    /\ UNCHANGED <<gateway_calls, attempts_made, invoked>>

\* run, line 214: messages = self.memory.build_prompt(self.system_prompt)
run_build_prompt ==
    /\ pc = "build_prompt"
    /\ messages' = build_prompt(system_prompt, summary, history)
    /\ pc' = "while"
    /\ UNCHANGED <<memvars, cfgvars, diskvars, auxvars, resvars, retryvars, envvars, budgetvars, obsvars, last>>
    /\ UNCHANGED <<user_input, max_iterations, iteration, response, tool_calls, tc_idx>>

\* run, lines 217-225 and 292-295: the loop test; either the next gateway
\* call starts or the iteration limit is reported
run_while ==
    /\ pc = "while"
    /\ IF iteration < max_iterations
          THEN /\ iteration' = iteration + 1
               /\ gateway_calls' = gateway_calls + 1
               /\ attempt' = 0
               /\ sleeps' = << >>
               /\ attempt_log' = << >>
               /\ pc' = "call_llm"
               /\ UNCHANGED <<history, ret, outcome>>
          ELSE /\ RunReturns(history, Apology, "ITERATION_LIMIT_REACHED")
               /\ UNCHANGED <<iteration, gateway_calls, attempt, sleeps, attempt_log>>
    /\ UNCHANGED <<summary, movies_discussed, movie_context, cfgvars, diskvars, auxvars>>
    /\ UNCHANGED <<envvars, budgetvars, last, llm_error, max_retries>>
    /\ UNCHANGED <<user_input, max_iterations, messages, response, tool_calls, tc_idx>>
    /\ UNCHANGED <<attempts_made, summarize_calls, invoked>>

\* run, lines 226-229: the exception of _call_llm_with_retry is turned into
\* the error turn, which is returned
run_except ==
    /\ pc = "except"
    /\ RunReturns(history, ErrorMsg(llm_error), "GATEWAY_FAILURE")
    /\ UNCHANGED <<summary, movies_discussed, movie_context, cfgvars, diskvars, auxvars>>
    /\ UNCHANGED <<loopvars, retryvars, envvars, budgetvars, obsvars, last, llm_error>>

\* run, lines 232-254: parse the response; finalize or start the tool batch
run_parse ==
    /\ pc = "parse"
    /\ LET p == parse_tool_calls(response) IN
       IF p.raised # "none"
          THEN /\ RunRaises
               /\ UNCHANGED <<history, movies_discussed, messages, tool_calls, tc_idx>>
       ELSE IF p.calls = << >>
          THEN /\ RunReturns(history, FinalAnswer(p.content), "FINAL_ANSWER")
               /\ movies_discussed' =
                      MergeTitles(movies_discussed, _extract_movie_titles(user_input))
               /\ UNCHANGED <<messages, tool_calls, tc_idx>>
          ELSE /\ messages' = Append(messages,
                                     [role |-> "assistant",
                                      content |-> response.message.content,
                                      tool_call_id |-> Absent,
                                      tool_calls |-> response.message.tool_calls])
               /\ tool_calls' = p.calls
               /\ tc_idx' = 1
               /\ pc' = "execute"
               /\ UNCHANGED <<history, movies_discussed, ret, outcome>>
    /\ UNCHANGED <<summary, movie_context, cfgvars, diskvars, auxvars, retryvars, obsvars>>
    /\ UNCHANGED <<envvars, budgetvars, last, llm_error>>
    /\ UNCHANGED <<user_input, max_iterations, iteration, response>>

\* (variant: the batch is walked from its end)
ToolCallAtReversed(calls, idx) == calls[Len(calls) + 1 - idx]

\* (variant: every pass of the loop handles the first call of the batch)
ToolCallAtFirst(calls, idx) == calls[1]

\* "for tool_call in tool_calls": the call handled in pass idx of the loop
ToolCallAt(calls, idx) == calls[idx]

\* run, lines 257-288: one pass through "for tool_call in tool_calls"
run_execute_tool ==
    /\ pc = "execute"
    /\ LET tool_call == ToolCallAt(tool_calls, tc_idx) IN
       \E invocation \in ToolOutcomes(tool_call.name) :
          LET result == execute_tool(tool_call.name, invocation)
              t == TrackedMovie(result)
          IN /\ messages' = Append(messages, ToolMsg(tool_call.id, result))
             /\ invoked' = Append(invoked, [id |-> tool_call.id,
                                            name |-> tool_call.name,
                                            iteration |-> iteration,
                                            registered |-> tool_call.name \in tools])
             /\ IF t.track
                   THEN /\ movies_discussed' = DiscussedAfterAdd(movies_discussed, t.title)
                        /\ movie_context' = ContextAfterAdd(movie_context, t.title, t.movie)
                        /\ last' = LastOp("add_movie_to_context", t.title, t.movie,
                                          t.title \in Range(movies_discussed),
                                          PriorMovie(movie_context, t.title))
                   ELSE UNCHANGED <<movies_discussed, movie_context, last>>
    /\ tc_idx' = tc_idx + 1
    /\ pc' = IF tc_idx = Len(tool_calls) THEN "while" ELSE "execute"
    /\ UNCHANGED <<summary, history, cfgvars, diskvars, auxvars, resvars, retryvars, envvars, budgetvars>>
    /\ UNCHANGED <<user_input, max_iterations, iteration, response, tool_calls>>
    /\ UNCHANGED <<gateway_calls, attempts_made, summarize_calls>>

\* run (or the direct call) has ended: control is back with the caller and
\* the locals of the call are gone
exit ==
    /\ pc = "returned"
    /\ pc' = "idle"
    /\ caller' = "none"
    /\ user_input' = << >>
    /\ max_iterations' = 0
    /\ iteration' = 0
    /\ messages' = << >>
    /\ response' = NoResponse
    /\ tool_calls' = << >>
    /\ tc_idx' = 0
    /\ ret' = NoneText
    /\ outcome' = "NONE"
    /\ llm_error' = << >>
    /\ attempt' = 0
    /\ max_retries' = DefaultMaxRetries
    /\ sleeps' = << >>
    /\ attempt_log' = << >>
    /\ gateway' = "any"
    /\ gateway_calls' = 0
    /\ attempts_made' = 0
    /\ summarize_calls' = 0
    /\ invoked' = << >>
    /\ last' = Op("exit")
    /\ UNCHANGED <<memvars, cfgvars, diskvars, auxvars, budgetvars>>

(***************************************************************************)
(* ToolExecutor called on its own                                          *)
(***************************************************************************)
ToolNames == tools \cup {"nonexistent_tool"}

\* direct call of tool_executor.execute_tool(tool_name, arguments); the
\* registered tool, when invoked, returns a text or raises
direct_execute_tool(tool_name, limit) ==
    /\ pc = "idle" /\ ops < limit
    /\ \E invocation \in ToolOutcomes(tool_name) :
          /\ ret' = execute_tool(tool_name, invocation)
          /\ invoked' = IF tool_name \in tools
                           THEN <<[id |-> "direct", name |-> tool_name,
                                   iteration |-> 0, registered |-> TRUE]>>
                           ELSE << >>
          /\ last' = LastOp("execute_tool", tool_name, NoMovie,
                            tool_name \in tools /\ invocation.raises, NoMovie)
    /\ outcome' = "TOOL_RETURNED"
    /\ pc' = "returned"
    /\ caller' = "direct"
    /\ ops' = ops + 1
    /\ UNCHANGED <<memvars, cfgvars, diskvars, auxvars, loopvars, retryvars, gateway, runs, llm_error>>
    /\ UNCHANGED <<gateway_calls, attempts_made, summarize_calls>>

\* responses handed to parse_tool_calls when it is called on its own
RGoodBadGood ==
    Response("one", NoneText,
             TC("list", <<GoodCall("call_1", "search_movie_by_title", "Heat"),
                          Entry("call_2", "present", "get_movie_ratings", BadArgsText),
                          GoodCall("call_3", "compare_movies", "Inception")>>))

ParseInputs == Responses \cup {RGoodBadGood}

\* direct call of tool_executor.parse_tool_calls(response)
direct_parse_tool_calls(resp, limit) ==
    /\ pc = "idle" /\ ops < limit
    /\ LET p == parse_tool_calls(resp) IN
          /\ response' = resp
          /\ tool_calls' = p.calls
          /\ ret' = p.content
          /\ outcome' = IF p.raised = "none" THEN "PARSE_RETURNED" ELSE "PARSE_RAISED"
          /\ last' = LastOp("parse_tool_calls", p.raised, NoMovie, FALSE, NoMovie)
    /\ pc' = "returned"
    /\ caller' = "direct"
    /\ ops' = ops + 1
    /\ UNCHANGED <<memvars, cfgvars, diskvars, auxvars, retryvars, obsvars, gateway, runs, llm_error>>
    /\ UNCHANGED <<user_input, max_iterations, iteration, messages, tc_idx>>

(***************************************************************************)
(* ConversationSummaryMemory.get_recent_movies_discussed and its caller    *)
(***************************************************************************)
\* (variant: the internal list itself is returned)
get_recent_movies_discussed_alias(md) == Listing(md, TRUE)

\* get_recent_movies_discussed: return self.movies_discussed.copy()
get_recent_movies_discussed(md) == Listing(md, FALSE)

\* direct call of memory.get_recent_movies_discussed() (also reached through
\* agent.get_discussed_movies)
direct_get_recent_movies_discussed(limit) ==
    /\ pc = "idle" /\ ops < limit
    /\ listing' = get_recent_movies_discussed(movies_discussed)
    /\ ops' = ops + 1
    /\ last' = Op("get_recent_movies_discussed")
    /\ UNCHANGED <<memvars, cfgvars, diskvars, schemas, conversation_memory>>
    /\ UNCHANGED <<loopvars, resvars, retryvars, envvars, obsvars, runs, pc>>

\* what a caller can do to a list: append, remove (the first item), reorder
Mutated(m, s) ==
    CASE m = "append" -> Append(s, "Alien")
      [] m = "remove" -> IF s = << >> THEN s ELSE Tail(s)
      [] OTHER -> [i \in 1..Len(s) |-> s[Len(s) + 1 - i]]

\* the caller mutates the list it was given; a list object shared with the
\* memory changes for the memory as well
mutate_listing(m, limit) ==
    /\ pc = "idle" /\ ops < limit
    /\ listing.held
    /\ Mutated(m, listing.items) # listing.items
    /\ listing' = Listing(Mutated(m, listing.items), listing.shared)
    /\ movies_discussed' = IF listing.shared THEN Mutated(m, listing.items)
                                             ELSE movies_discussed
    /\ ops' = ops + 1
    /\ last' = LastOp("mutate_listing", m, NoMovie, FALSE, NoMovie)
    /\ UNCHANGED <<summary, history, movie_context>>
    /\ UNCHANGED <<cfgvars, diskvars, schemas, conversation_memory>>
    /\ UNCHANGED <<loopvars, resvars, retryvars, envvars, obsvars, runs, pc>>

(***************************************************************************)
(* ToolExecutor.get_tool_schemas                                           *)
(***************************************************************************)
\* tool.description: the docstring of the registered tool
Description(name) == <<"docstring of ", name>>

\* the keys of {tool.name: tool for tool in tools}, in dict order: a name
\* keeps the position of its first registration
RECURSIVE DictKeys(_)
DictKeys(names) ==
    IF names = << >> THEN << >>
    ELSE LET front == DictKeys(SubSeq(names, 1, Len(names) - 1))
             n == names[Len(names)]
         IN IF n \in Range(front) THEN front ELSE Append(front, n)

\* the names that have an entry in the manual tool_schemas table
HasManualSchema(name) ==
    name \in {"search_movie_by_title", "search_movie_by_id",
              "analyze_cinematography", "get_movie_ratings"}

\* tool_schemas.get(tool_name, {"type": "object", "properties": {}, "required": []})
Parameters(name) ==
    IF HasManualSchema(name)
       THEN [type |-> "object", required |-> <<"manual", name>>]
       ELSE [type |-> "object", required |-> << >>]

Schema(name) ==
    [type |-> "function",
     function |-> [name |-> name, description |-> Description(name),
                   parameters |-> Parameters(name)]]

\* (variant: only the tools of the manual table are described)
get_tool_schemas_manual_only ==
    LET names == SelectSeq(DictKeys(AVAILABLE_TOOLS), HasManualSchema)
    IN [i \in 1..Len(names) |-> Schema(names[i])]

\* get_tool_schemas: one schema per value of self.tools
get_tool_schemas ==
    LET names == DictKeys(AVAILABLE_TOOLS)
    IN [i \in 1..Len(names) |-> Schema(names[i])]

\* direct call of tool_executor.get_tool_schemas()
direct_get_tool_schemas(limit) ==
    /\ pc = "idle" /\ ops < limit
    /\ schemas' = get_tool_schemas
    /\ ops' = ops + 1
    /\ last' = LastOp("get_tool_schemas", "", NoMovie, schemas # << >>, NoMovie)
    /\ UNCHANGED <<memvars, cfgvars, diskvars, listing, conversation_memory>>
    /\ UNCHANGED <<loopvars, resvars, retryvars, envvars, obsvars, runs, pc>>

(***************************************************************************)
(* ConversationMemory (legacy)                                             *)
(***************************************************************************)
\* Python's s[-k:] for any integer k: s[0:] when k = 0, s[|k|:] when k < 0
NegSlice(s, k) ==
    IF k >= 0 THEN LastSlice(s, k)
    ELSE IF -k >= Len(s) THEN << >> ELSE SubSeq(s, 1 - k, Len(s))

\* Message(role=role, content=content): the timestamp tells messages apart
Message(role, content, timestamp) ==
    [role |-> role, content |-> content, timestamp |-> timestamp]

\* _trim_memory
_trim_memory(msgs, max_messages) ==
    IF Len(msgs) > max_messages
       THEN <<msgs[1]>> \o NegSlice(msgs, max_messages - 1)
       ELSE msgs

\* ConversationMemory(max_messages)
ConversationMemory(max_messages, limit) ==
    /\ pc = "idle" /\ ops < limit
    /\ conversation_memory = NoLegacyMemory
    /\ conversation_memory' = LegacyMemory(max_messages, << >>, 0)
    /\ last' = Op("ConversationMemory")
    /\ UNCHANGED <<memvars, cfgvars, diskvars, listing, schemas>>
    /\ UNCHANGED <<loopvars, resvars, retryvars, envvars, obsvars, budgetvars, pc>>

\* ConversationMemory.add_message: append, then _trim_memory
legacy_add_message(role, content, limit) ==
    /\ pc = "idle" /\ ops < limit
    /\ conversation_memory # NoLegacyMemory
    /\ LET m == conversation_memory
           appended == Append(m.messages, Message(role, content, m.clock + 1))
       IN conversation_memory' =
              LegacyMemory(m.max_messages, _trim_memory(appended, m.max_messages),
                           m.clock + 1)
    /\ ops' = ops + 1
    /\ last' = Op("legacy_add_message")
    /\ UNCHANGED <<memvars, cfgvars, diskvars, listing, schemas>>
    /\ UNCHANGED <<loopvars, resvars, retryvars, envvars, obsvars, runs, pc>>


(***************************************************************************)
(* Specifications                                                          *)
(***************************************************************************)
Gateways == {"any", "always_fails", "always_tool_calls"}

\* the agent: runs, interleaved with direct calls on its memory
Next ==
    \/ \E u \in UserTexts, mi \in 0..MaxIterArg, gw \in Gateways : run(u, mi, gw)
    \/ run_maybe_summarize
    \/ run_build_prompt
    \/ run_while
    \/ call_llm_attempt
    \/ run_except
    \/ run_parse
    \/ run_execute_tool
    \/ exit
    \/ \E role \in {"user", "assistant"} : add_message(role, AnswerText, MaxOps)
    \/ maybe_summarize(MaxOps)
    \/ \E k \in Titles \cup {""}, p \in Payloads :
          add_movie_to_context(k, Movie(k, p), MaxOps)

Spec == Init /\ [][Next]_vars

\* the agent answering user texts, nothing else being called on it
NextRun ==
    \/ \E u \in UserTexts, mi \in 0..MaxIterArg, gw \in Gateways : run(u, mi, gw)
    \/ run_maybe_summarize
    \/ run_build_prompt
    \/ run_while
    \/ call_llm_attempt
    \/ run_except
    \/ run_parse
    \/ run_execute_tool
    \/ exit

SpecRun == Init /\ [][NextRun]_vars

\* _call_llm_with_retry called on its own, for every max_retries
NextRetry ==
    \/ \E n \in 0..MaxRetriesArg, gw \in {"any", "always_fails"} :
          call_llm_with_retry(n, gw, MaxCalls)
    \/ call_llm_attempt
    \/ call_llm_falls_through
    \/ exit

SpecRetry == Init /\ [][NextRetry]_vars

\* the memory used on its own
NextMemory ==
    \/ \E role \in {"user", "assistant"}, text \in UserTexts :
          add_message(role, text, MaxMemOps)
    \/ maybe_summarize(MaxMemOps)
    \/ direct_build_prompt(MaxMemOps)
    \/ \E k \in Titles \cup {""}, p \in Payloads :
          add_movie_to_context(k, Movie(k, p), MaxMemOps)

SpecMemory == Init /\ [][NextMemory]_vars

\* the agent with its conversation file: runs, direct recordings, saving
\* and loading, restarts, and changes of the file from outside
NextPersist ==
    \/ \E u \in UserTexts, mi \in 0..MaxIterArg : run(u, mi, "any")
    \/ run_maybe_summarize
    \/ run_build_prompt
    \/ run_while
    \/ call_llm_attempt
    \/ run_except
    \/ run_parse
    \/ run_execute_tool
    \/ exit
    \/ \E p \in Payloads : add_movie_to_context("Heat", Movie("Heat", p), MaxDiskOps)
    \/ save_to_file(MaxDiskOps)
    \/ load_from_file(MaxDiskOps)
    \/ \E f \in ExternalFiles : file_changes(f, MaxDiskOps)
    \/ restart(MaxDiskOps)

SpecPersist == Init /\ [][NextPersist]_vars

\* the tool executor used on its own
NextTools ==
    \/ \E tool_name \in ToolNames : direct_execute_tool(tool_name, MaxToolOps)
    \/ \E resp \in ParseInputs : direct_parse_tool_calls(resp, MaxToolOps)
    \/ direct_get_tool_schemas(MaxToolOps)
    \/ exit

SpecTools == Init /\ [][NextTools]_vars

\* a caller that asks the memory for the discussed movies and changes the
\* list it gets, while movies are recorded
NextListing ==
    \/ \E k \in Titles, p \in Payloads :
          add_movie_to_context(k, Movie(k, p), MaxListOps)
    \/ direct_get_recent_movies_discussed(MaxListOps)
    \/ \E m \in {"append", "remove", "reverse"} : mutate_listing(m, MaxListOps)

SpecListing == Init /\ [][NextListing]_vars

\* the legacy memory used on its own
NextLegacy ==
    \/ \E n \in 1..MaxLegacyCfg : ConversationMemory(n, MaxLegacyOps)
    \/ \E role \in {"system", "user"}, text \in UserTexts :
          legacy_add_message(role, text, MaxLegacyOps)

SpecLegacy == Init /\ [][NextLegacy]_vars

(***************************************************************************)
(* Properties                                                              *)
(***************************************************************************)
RunOutcomes == {"FINAL_ANSWER", "ITERATION_LIMIT_REACHED", "GATEWAY_FAILURE"}

LastTurn(h) == h[Len(h)]

\* a step in which maybe_summarize compacts (inside run or called directly)
Compacts ==
    /\ SummarizeFires
    /\ \/ pc = "maybe_summarize" /\ pc' = "build_prompt"
       \/ pc = "idle" /\ ops' = ops + 1 /\ last'.op = "maybe_summarize:fired"

\* C1: every run ends in FINAL_ANSWER, ITERATION_LIMIT_REACHED or
\* GATEWAY_FAILURE, returns a text, and has appended exactly one assistant
\* turn, holding that text, right after the user turn of the run.
C1_RunEndsInOneOutcome ==
    (pc = "returned" /\ caller = "run") =>
        /\ outcome \in RunOutcomes
        /\ ret # NoneText
        /\ Len(history) >= 2
        /\ LastTurn(history) = Msg("assistant", ret)
        /\ history[Len(history) - 1] = Msg("user", user_input)

\* C2: with a gateway whose every response yields at least one parsed tool
\* call, run makes exactly max_iterations gateway calls, then appends and
\* returns the iteration-limit apology; it never goes beyond the limit and
\* never raises.
C2_AlwaysToolCallsHitsLimit ==
    (caller = "run" /\ gateway = "always_tool_calls") =>
        /\ gateway_calls <= max_iterations
        /\ outcome # "RAISED"
        /\ pc = "returned" =>
              /\ outcome = "ITERATION_LIMIT_REACHED"
              /\ gateway_calls = max_iterations
              /\ iteration = max_iterations
              /\ ret = Apology
              /\ LastTurn(history) = Msg("assistant", Apology)

\* C3: no fault raised inside run leaves run; every path returns a text.
C3_NoFaultLeavesRun ==
    caller = "run" => outcome # "RAISED"

\* C4: when all max_retries attempts of a gateway call of run fail, run
\* returns at once "Error: " followed by the failure description, appends
\* exactly that one assistant turn after the user turn, and makes no further
\* gateway call, attempt or tool invocation.
C4_GatewayFailureReturnsError ==
    [][/\ (caller = "run" /\ pc = "call_llm"
             /\ attempt_log' = [i \in 1..max_retries |-> "failed"])
          => pc' = "except"
       /\ (pc # "except" /\ pc' = "except")
          => /\ attempt_log' = [i \in 1..max_retries |-> "failed"]
             /\ \E e \in RequestExceptions :
                   llm_error' = <<"LLM API failed after ", "3", " retries: ">> \o e
       /\ pc = "except"
          => /\ pc' = "returned"
             /\ outcome' = "GATEWAY_FAILURE"
             /\ ret' = ErrorPrefix \o llm_error
             /\ LastTurn(history) = Msg("user", user_input)
             /\ history' = Append(history, Msg("assistant", ret'))
             /\ gateway_calls' = gateway_calls
             /\ attempts_made' = attempts_made
             /\ invoked' = invoked
       /\ outcome = "GATEWAY_FAILURE"
          => /\ pc' = "idle"
             /\ history' = history
      ]_vars

\* C4 witness: the gateway failed terminally in the second iteration, after
\* the tools of the first iteration had been invoked.
C4_Witness ==
    /\ pc = "returned" /\ outcome = "GATEWAY_FAILURE"
    /\ iteration = 2 /\ invoked # << >>
    /\ ret[1] = "Error: "

\* C5: with a gateway whose every attempt fails, _call_llm_with_retry makes
\* exactly max_retries attempts, waits 2^k after failed attempt k for
\* k = 0 .. max_retries-2 and not after the last one, then raises.
C5_RetryBound ==
    /\ (caller = "direct" /\ gateway = "always_fails") => attempts_made <= max_retries
    /\ (caller = "direct" /\ gateway = "always_fails" /\ pc = "returned") =>
          /\ attempts_made = max_retries
          /\ sleeps = [k \in 1..(max_retries - 1) |-> Pow2(k - 1)]
          /\ outcome = "LLM_RAISED"

C7_CompactionPost ==
    [][Compacts =>
          /\ Len(history') = max_recent_messages
          /\ history' = SubSeq(history, Len(history) - max_recent_messages + 1,
                               Len(history))
          /\ summary' # << >>
          /\ IsPrefix(summary, summary')
      ]_vars

\* C8: the summary is never overwritten or shortened: in every step the old
\* summary is a prefix of the new one, and a compaction that finds a prior
\* summary appends the marker and the new text to it.
C8_SummaryOnlyGrows ==
    [][/\ IsPrefix(summary, summary')
       /\ Compacts =>
             \E new \in SummaryTexts :
                summary' = IF summary # << >> THEN summary \o Marker \o new ELSE new
       /\ (~Compacts) => summary' = summary
      ]_vars

\* C8 witness: after a run, the summary holds an earlier summary, the marker
\* and a later text.
C8_Witness ==
    /\ runs = 1
    /\ Len(summary) = 3
    /\ summary[2] = Marker[1]

\* C9: build_prompt yields the system turn (base prompt plus consistency
\* instruction), then the summary turn exactly when the summary is
\* non-empty, then the history in order and nothing else.
C9_PromptOrder ==
    (pc = "idle" /\ last.op = "build_prompt") =>
        LET k == IF summary # << >> THEN 2 ELSE 1 IN
        /\ Len(messages) = k + Len(history)
        /\ messages[1] = Msg("system", system_prompt \o ConsistencyInstruction)
        /\ summary # << >> =>
              /\ messages[2].role = "system"
              /\ messages[2].content = SummaryHeader \o summary
        /\ \A i \in 1..Len(history) : messages[k + i] = history[i]

\* C9 witness: a prompt built from a non-empty summary and two raw turns.
C9_Witness ==
    /\ pc = "idle" /\ last.op = "build_prompt"
    /\ summary # << >>
    /\ Len(history) = 2
    /\ Len(messages) = 4

\* C10: add_movie_to_context(k, v2) for a non-empty k recorded before leaves
\* movies_discussed as it was (k once, at its first position) and sets
\* movie_context[k] to v2.
C10_SecondAddOverwrites ==
    [][(/\ ops' = ops + 1
        /\ last'.op = "add_movie_to_context"
        /\ last'.key # ""
        /\ last'.key \in DOMAIN movie_context)
          => /\ movies_discussed' = movies_discussed
             /\ Count(movies_discussed', last'.key) = 1
             /\ movie_context'[last'.key] = last'.movie
      ]_vars

\* C10 witness: k was recorded first, another title after it, and k again
\* with a different payload.
C10_Witness ==
    /\ last.op = "add_movie_to_context" /\ last.present
    /\ last.old # NoMovie /\ last.old # last.movie
    /\ Len(movies_discussed) = 2
    /\ movies_discussed[1] = last.key
    /\ movie_context[last.key] = last.movie

\* C11: in every state reached through run, add_movie_to_context,
\* maybe_summarize and the title extraction of the final answer,
\* movies_discussed holds no key twice and every key of movie_context is an
\* element of movies_discussed.
C11_NoDuplicateKeys ==
    /\ \A i, j \in 1..Len(movies_discussed) :
          movies_discussed[i] = movies_discussed[j] => i = j
    /\ DOMAIN movie_context \subseteq Range(movies_discussed)

\* C11 witness: a run about Inception ended with a final answer after a tool
\* had recorded Inception, while Heat had been recorded before the run.
C11_Witness ==
    /\ pc = "returned" /\ outcome = "FINAL_ANSWER"
    /\ user_input = <<"Tell me about Inception">>
    /\ movies_discussed = <<"Heat", "Inception">>
    /\ DOMAIN movie_context = {"Heat", "Inception"}
    /\ invoked # << >>

\* a step that is a direct call of add_movie_to_context
AddsMovie == ops' = ops + 1 /\ last'.op = "add_movie_to_context"

\* C12: add_movie_to_context(key, payload) appends key to movies_discussed
\* exactly when key is non-empty and not yet present, and for every key,
\* the empty one included, sets movie_context[key] to payload.
C12_AlwaysUpserts ==
    [][AddsMovie =>
          /\ movies_discussed' =
                 IF last'.key # "" /\ last'.key \notin Range(movies_discussed)
                    THEN Append(movies_discussed, last'.key)
                    ELSE movies_discussed
          /\ last'.key \in DOMAIN movie_context'
          /\ movie_context'[last'.key] = last'.movie
      ]_vars

\* C12 as amended: the key is appended exactly when it is non-empty and not
\* yet present; movie_context[key] is set to payload exactly when key is
\* non-empty, the other entries staying as they were; a call with the empty
\* key changes neither movies_discussed nor movie_context.
C12_UpsertsNonEmptyKey ==
    [][AddsMovie =>
          /\ movies_discussed' =
                 IF last'.key # "" /\ last'.key \notin Range(movies_discussed)
                    THEN Append(movies_discussed, last'.key)
                    ELSE movies_discussed
          /\ last'.key # "" =>
                /\ DOMAIN movie_context' = DOMAIN movie_context \cup {last'.key}
                /\ movie_context'[last'.key] = last'.movie
                /\ \A k \in DOMAIN movie_context \ {last'.key} :
                      movie_context'[k] = movie_context[k]
          /\ last'.key = "" =>
                /\ DOMAIN movie_context' = DOMAIN movie_context
                /\ \A k \in DOMAIN movie_context : movie_context'[k] = movie_context[k]
      ]_vars

\* C12 witness: a call with the empty key was made on a memory that held
\* two recorded movies, and left both in place.
C12_Witness ==
    /\ last.op = "add_movie_to_context" /\ last.key = ""
    /\ Len(movies_discussed) = 2
    /\ DOMAIN movie_context = Titles

\* C13: execute_tool never raises: for a name that is not registered it
\* returns {"error": "Tool '<name>' not found"} and no tool is invoked; when
\* the registered tool raises it returns
\* {"error": "Tool execution failed: <message>"}; otherwise it returns the
\* result of the tool.
C13_ExecuteToolNeverRaises ==
    (pc = "returned" /\ last.op = "execute_tool") =>
        /\ outcome = "TOOL_RETURNED"
        /\ ret # NoneText
        /\ last.key \notin tools =>
              /\ ret = <<"{\"error\": \"Tool '", last.key, "' not found\"}">>
              /\ invoked = << >>
        /\ last.key \in tools =>
              /\ Len(invoked) = 1 /\ invoked[1].name = last.key
              /\ \E invocation \in ToolOutcomes(last.key) :
                    /\ invocation.raises = last.present
                    /\ ret = IF invocation.raises
                                THEN <<"{\"error\": \"Tool execution failed: ">>
                                         \o invocation.text \o <<"\"}">>
                                ELSE invocation.text

\* C13 witness: a registered tool raised and the error text came back.
C13_Witness ==
    /\ pc = "returned" /\ last.op = "execute_tool"
    /\ last.key = "compare_movies" /\ last.present
    /\ ret = FailedText(ToolFault)

\* the entry carries "function" and "name", so that only its arguments
\* decide what the parser does with it
HasFunctionName(e) == e.function = "present" /\ e.name # Absent

ArgsDecode(e) == JsonDecodable(e.arguments)

ParsedCall(e) == [id |-> e.id, name |-> e.name, arguments |-> JsonLoadsArgs(e.arguments)]

\* C14: parse_tool_calls returns, in their original order, exactly the
\* entries whose arguments decode; an entry whose arguments fail to decode
\* is skipped without raising, and no decodable entry before or after it is
\* dropped or moved.
C14_SkipsUndecodableOnly ==
    (/\ pc = "returned" /\ last.op = "parse_tool_calls"
     /\ response.choices = "one"
     /\ response.message.tool_calls.tag = "list"
     /\ \A i \in 1..Len(response.message.tool_calls.val) :
           HasFunctionName(response.message.tool_calls.val[i]))
       => LET kept == SelectSeq(response.message.tool_calls.val, ArgsDecode) IN
          /\ outcome = "PARSE_RETURNED"
          /\ tool_calls = [i \in 1..Len(kept) |-> ParsedCall(kept[i])]

\* the invocations made in the current iteration of run
InThisIteration(r) == r.iteration = iteration

\* number of calls of the current batch that have been handled, or -1 when
\* no batch is being handled
BatchDone ==
    IF pc = "execute" THEN tc_idx - 1
    ELSE IF pc = "while" /\ iteration >= 1 THEN Len(tool_calls)
    ELSE -1

\* C15: within one iteration the tools are invoked once per parsed call, one
\* after another in the order of the parser, and the tool turns are appended
\* to the prompt in that order; only calls requested by the most recent
\* gateway response are invoked, and none after run has ended.
C15_SequentialToolBatch ==
    /\ [](caller = "run" =>
             LET batch == SelectSeq(invoked, InThisIteration) IN
             /\ \A i \in 1..Len(invoked) : invoked[i].iteration <= iteration
             /\ \A i \in 1..(Len(invoked) - 1) :
                   invoked[i].iteration <= invoked[i + 1].iteration
             /\ pc \in {"call_llm", "parse", "except"} => batch = << >>
             /\ BatchDone >= 0 =>
                   /\ tool_calls = parse_tool_calls(response).calls
                   /\ Len(batch) = BatchDone
                   /\ \A j \in 1..BatchDone :
                         /\ batch[j].id = tool_calls[j].id
                         /\ batch[j].name = tool_calls[j].name
                         /\ messages[Len(messages) - BatchDone + j].role = "tool"
                         /\ messages[Len(messages) - BatchDone + j].tool_call_id
                               = tool_calls[j].id
                   /\ messages[Len(messages) - BatchDone].role = "assistant")
    /\ [][/\ Len(invoked') <= Len(invoked) + 1
          /\ Len(invoked') > Len(invoked) => pc = "execute"
          /\ pc \in {"returned", "idle"} => invoked' \in {invoked, << >>}
         ]_vars

\* C15 witness: both calls of one response were handled, in order, and
\* their tool turns are the last two turns of the prompt.
C15_Witness ==
    /\ caller = "run" /\ pc = "while" /\ iteration = 1
    /\ Len(invoked) = 2
    /\ invoked[1].id = "call_1" /\ invoked[2].id = "call_2"
    /\ messages[Len(messages) - 1].tool_call_id = "call_1"
    /\ messages[Len(messages)].tool_call_id = "call_2"

\* the ids of the tool_calls entries of a message
CallIds(m) == {m.tool_calls.val[i].id : i \in 1..Len(m.tool_calls.val)}

\* C16: in every message sequence passed to the gateway, each tool turn
\* carries the id of a tool_calls entry of the nearest preceding assistant
\* turn, and only tool turns lie between the two.
C16_ToolTurnsAnswerAssistant ==
    (caller = "run" /\ pc = "call_llm") =>
        \A i \in 1..Len(messages) :
           messages[i].role = "tool" =>
              \E j \in 1..(i - 1) :
                 /\ messages[j].role = "assistant"
                 /\ \A k \in (j + 1)..(i - 1) : messages[k].role = "tool"
                 /\ messages[i].tool_call_id \in CallIds(messages[j])

\* C16 witness: the second gateway call of a run receives a prompt whose
\* last three turns are an assistant turn with two calls and their two
\* tool turns.
C16_Witness ==
    /\ caller = "run" /\ pc = "call_llm" /\ iteration = 2
    /\ Len(messages) >= 4
    /\ messages[Len(messages) - 2].role = "assistant"
    /\ messages[Len(messages) - 1].role = "tool"
    /\ messages[Len(messages)].role = "tool"
    /\ messages[Len(messages)].tool_call_id = "call_2"

AtDefaults ==
    /\ summary = << >>
    /\ history = << >>
    /\ movies_discussed = << >>
    /\ movie_context = << >>

\* the file is an object with all four keys, and the four fields hold
\* their values
HoldsFileValues ==
    /\ file.kind = "object"
    /\ file.data.summary.present /\ file.data.history.present
    /\ file.data.movies_discussed.present /\ file.data.movie_context.present
    /\ summary = file.data.summary.val
    /\ [i \in 1..Len(history) |-> JsonMessage(history[i])] = file.data.history.val
    /\ movies_discussed = file.data.movies_discussed.val
    /\ movie_context = file.data.movie_context.val

\* C18: load_from_file on a missing file, or on a file whose content is
\* corrupt or malformed, does not raise, gives a warning, and leaves
\* summary, history, movies_discussed and movie_context at their empty
\* defaults, whatever the memory held before.
C18_FailedLoadLeavesDefaults ==
    (last.op = "load_from_file" /\ file.kind # "object") =>
        /\ last.key = "warning"
        /\ AtDefaults

\* C19: load_from_file is all-or-nothing: afterwards either all four fields
\* hold the values of the file or all four hold the empty defaults, never a
\* mixture of loaded, default and earlier values.
C19_LoadAllOrNothing ==
    last.op = "load_from_file" => (HoldsFileValues \/ AtDefaults)

\* the step of run that returns the final answer
ReturnsFinalAnswer == pc = "parse" /\ outcome' = "FINAL_ANSWER"

\* C20: on the final-answer path the titles found in the user text are
\* appended to movies_discussed only when not yet present and movie_context
\* is left as it is; a title that a tool result recorded earlier in the run
\* and that is also found in the user text is listed exactly once and keeps
\* the payload recorded from the tool.
C20_FinalAnswerMergesTitles ==
    [][ReturnsFinalAnswer =>
          LET found == Range(_extract_movie_titles(user_input)) IN
          /\ movie_context' = movie_context
          /\ IsPrefix(movies_discussed, movies_discussed')
          /\ Range(movies_discussed') = Range(movies_discussed) \cup found
          /\ Len(movies_discussed') =
                Len(movies_discussed) + Cardinality(found \ Range(movies_discussed))
          /\ (last.op = "add_movie_to_context" /\ last.key \in found) =>
                /\ Count(movies_discussed', last.key) = 1
                /\ movie_context'[last.key] = last.movie
      ]_vars

\* C20 witness: a run about Inception recorded Inception from a tool result
\* in its first iteration and returned the final answer in its second.
C20_Witness ==
    /\ pc = "returned" /\ outcome = "FINAL_ANSWER" /\ iteration = 2
    /\ user_input = <<"Tell me about Inception">>
    /\ last.op = "add_movie_to_context" /\ last.key = "Inception"
    /\ movies_discussed = <<"Inception">>
    /\ movie_context["Inception"] = last.movie

\* C21: in each iteration run finalizes exactly when the parser yields no
\* parsed call (no entries, or every entry malformed), the answer being the
\* content of the response if present and the fallback text otherwise; when
\* a call was parsed, run goes on to the tools even if the response carries
\* content.
C21_FinalizesIffNoParsedCall ==
    [][(caller = "run" /\ pc = "parse") =>
          IF parse_tool_calls(response).calls = << >>
             THEN /\ outcome' = "FINAL_ANSWER"
                  /\ ret' = IF Truthy(response.message.content)
                               THEN response.message.content
                               ELSE Fallback
                  /\ history' = Append(history, Msg("assistant", ret'))
             ELSE /\ pc' = "execute"
                  /\ outcome' = "RUNNING"
                  /\ history' = history
      ]_vars

\* C22: when a parsed call names an unregistered tool, or its tool raises,
\* run appends a tool turn with the id of that call and the error text as
\* content, goes on with the rest of the batch and then to the next gateway
\* call, or to the iteration-limit answer; the run does not end in a fault.
C22_ToolErrorsFeedTheLoop ==
    [][/\ (caller = "run" /\ pc = "execute") =>
             LET c == tool_calls[tc_idx]
                 m == messages'[Len(messages')]
             IN /\ messages' = Append(messages, m)
                /\ m.role = "tool"
                /\ m.tool_call_id = c.id
                /\ c.name \notin tools =>
                      m.content = <<"{\"error\": \"Tool '", c.name, "' not found\"}">>
                /\ c.name \in tools =>
                      \E invocation \in ToolOutcomes(c.name) :
                         m.content = IF invocation.raises
                                        THEN <<"{\"error\": \"Tool execution failed: ">>
                                                 \o invocation.text \o <<"\"}">>
                                        ELSE invocation.text
                /\ outcome' = "RUNNING"
                /\ tc_idx' = tc_idx + 1
                /\ pc' = IF tc_idx < Len(tool_calls) THEN "execute" ELSE "while"
       /\ (caller = "run" /\ pc = "while" /\ iteration >= 1) =>
             \/ iteration < max_iterations /\ pc' = "call_llm"
                   /\ gateway_calls' = gateway_calls + 1
             \/ iteration = max_iterations /\ outcome' = "ITERATION_LIMIT_REACHED"
      ]_vars

\* C22 witness: the tool of the first call raised and the second call named
\* an unregistered tool; both error texts are in the prompt of the second
\* gateway call.
C22_Witness ==
    /\ caller = "run" /\ pc = "call_llm" /\ iteration = 2
    /\ Len(invoked) = 2 /\ ~invoked[2].registered
    /\ messages[Len(messages) - 1] = ToolMsg("call_1", FailedText(ToolFault))
    /\ messages[Len(messages)] = ToolMsg("call_2", NotFoundText("nonexistent_tool"))

\* C23: in each run the user turn is stored first, then maybe_summarize
\* runs once, then the prompt is built once, all before the first gateway
\* call, and the summary and the stored turns are not compacted later in
\* the run; so the prompt of the first gateway call ends with the user
\* turn, also when compaction fired in this run.
C23_CompactThenPromptThenCall ==
    /\ []((caller = "run" /\ pc = "call_llm" /\ iteration = 1) =>
             /\ messages = build_prompt(system_prompt, summary, history)
             /\ messages[Len(messages)] = Msg("user", user_input)
             /\ summarize_calls <= 1
             /\ gateway_calls = 1)
    /\ [][/\ (pc = "idle" /\ pc' # "idle" /\ caller' = "run") =>
                /\ pc' = "maybe_summarize"
                /\ history' = Append(history, Msg("user", user_input'))
          /\ pc = "maybe_summarize" =>
                /\ pc' \in {"build_prompt", "returned"}
                /\ gateway_calls' = 0
                /\ messages' = << >>
          /\ pc = "build_prompt" =>
                /\ pc' = "while"
                /\ gateway_calls' = 0
                /\ UNCHANGED <<summary, history>>
          /\ (caller = "run" /\ pc \notin {"maybe_summarize", "build_prompt"}) =>
                /\ summary' = summary
                /\ summarize_calls' \in {summarize_calls, 0}
                /\ IsPrefix(history, history')
                /\ Len(history') <= Len(history) + 1
                /\ pc' \notin {"maybe_summarize", "build_prompt"}
         ]_vars

\* C23 witness: compaction fired in this run on two earlier turns and the
\* user turn, kept the user turn only, and the first gateway call is under
\* way.
C23_Witness ==
    /\ caller = "run" /\ pc = "call_llm" /\ iteration = 1
    /\ summarize_calls = 1 /\ ops = 2
    /\ summary # << >>
    /\ history = <<Msg("user", user_input)>>
    /\ Len(messages) = 3

IsTitledMovieResult(r) ==
    /\ Len(r) = 5
    /\ r[1] = "{\"success\": true, \"movie\": {\"Title\": \""
    /\ r[2] # ""

\* C25: a tool result changes movies_discussed and movie_context only if it
\* decodes to an object with a truthy success flag, a movie payload and a
\* non-empty Title, and then as add_movie_to_context(Title, movie) does; any
\* other result (unknown tool, failing tool, unsuccessful lookup, text that
\* is no such object) leaves both unchanged, and the loop goes on.
C25_OnlyTitledMoviesAreRecorded ==
    [][(caller = "run" /\ pc = "execute") =>
          LET r == messages'[Len(messages')].content IN
          /\ outcome' = "RUNNING"
          /\ pc' \in {"execute", "while"}
          /\ IF IsTitledMovieResult(r)
                THEN /\ movies_discussed' =
                           IF r[2] \in Range(movies_discussed)
                              THEN movies_discussed
                              ELSE Append(movies_discussed, r[2])
                     /\ DOMAIN movie_context' = DOMAIN movie_context \cup {r[2]}
                     /\ movie_context'[r[2]] = [Title |-> r[2], data |-> r[4]]
                     /\ \A k \in DOMAIN movie_context \ {r[2]} :
                           movie_context'[k] = movie_context[k]
                ELSE /\ movies_discussed' = movies_discussed
                     /\ movie_context' = movie_context
      ]_vars

\* C25 witness: in its second iteration a run got an unsuccessful lookup,
\* which left in place the movie recorded from the successful lookup of the
\* first iteration.
C25_Witness ==
    /\ caller = "run" /\ pc = "while" /\ iteration = 2
    /\ Len(invoked) = 2
    /\ messages[Len(messages)].content = ResultFailure
    /\ movies_discussed = <<"Inception">>
    /\ movie_context["Inception"] = Movie("Inception", "p2")

\* a step that is a direct call of maybe_summarize
CallsMaybeSummarize ==
    /\ pc = "idle" /\ ops' = ops + 1
    /\ last'.op \in {"maybe_summarize:skipped", "maybe_summarize:fired",
                     "maybe_summarize:raised"}

\* C26: maybe_summarize called with len(history) <= summarize_after makes
\* no summarisation call and leaves summary, history, movies_discussed and
\* movie_context unchanged; when it fires it changes summary and history
\* only.
C26_MaybeSummarizeFrame ==
    [][/\ pc = "maybe_summarize" =>
             IF Len(history) <= summarize_after
                THEN /\ summarize_calls' = summarize_calls
                     /\ UNCHANGED <<summary, history, movies_discussed, movie_context>>
                ELSE /\ summarize_calls' = summarize_calls + 1
                     /\ UNCHANGED <<movies_discussed, movie_context>>
       /\ CallsMaybeSummarize =>
             /\ last'.op = "maybe_summarize:skipped" <=> Len(history) <= summarize_after
             /\ last'.op = "maybe_summarize:skipped" => UNCHANGED <<summary, history>>
             /\ UNCHANGED <<movies_discussed, movie_context>>
      ]_vars

\* C26 witness: maybe_summarize was called with the history exactly at the
\* threshold and a movie recorded, and did nothing.
C26_Witness ==
    /\ last.op = "maybe_summarize:skipped"
    /\ summarize_after = 1 /\ Len(history) = 1
    /\ summary = << >>
    /\ movies_discussed # << >>

\* C27: for every max_retries, _call_llm_with_retry either returns the
\* response of a successful attempt or raises the terminal failure; it
\* never returns without a response.
C27_ReturnsResponseOrRaises ==
    (caller = "direct" /\ pc = "returned" /\ last.op = "_call_llm_with_retry") =>
        \/ /\ outcome = "LLM_RETURNED"
           /\ response \in Responses
           /\ attempt_log # << >>
           /\ attempt_log[Len(attempt_log)] = "ok"
        \/ /\ outcome = "LLM_RAISED"
           /\ llm_error # << >>

\* C28: get_recent_movies_discussed returns a copy: the list it returns
\* holds the recorded titles in order, a caller that appends to, removes
\* from or reorders that list never changes memory.movies_discussed, and a
\* later call returns the memory's list whatever the caller did.
C28_ListingIsACopy ==
    /\ [](last.op = "get_recent_movies_discussed" =>
              listing.items = movies_discussed)
    /\ [][last'.op = "mutate_listing" =>
              /\ movies_discussed' = movies_discussed
              /\ listing'.items # listing.items]_vars
    /\ [][movies_discussed' # movies_discussed =>
              last'.op = "add_movie_to_context"]_vars

\* C28 witness: the caller changed the list it was given, and the memory
\* still holds the two titles it recorded.
C28_Witness ==
    /\ last.op = "mutate_listing"
    /\ listing.held
    /\ listing.items # movies_discussed
    /\ movies_discussed = <<"Heat", "Inception">>

C30_LegacyTrimKeepsBound ==
    /\ [](conversation_memory.max_messages >= 1 =>
              /\ Len(conversation_memory.messages) <= conversation_memory.max_messages
              /\ \A i, j \in 1..Len(conversation_memory.messages) :
                    i # j => conversation_memory.messages[i] # conversation_memory.messages[j])
    /\ [][(last'.op = "legacy_add_message"
           /\ Len(conversation_memory.messages) = conversation_memory.max_messages) =>
              LET old == conversation_memory.messages
                  n == conversation_memory.max_messages
                  new == conversation_memory'.messages
              IN /\ new[1] = old[1]
                 /\ Len(new) = n
                 /\ \A i \in 2..n : new[i] = Append(old, new[Len(new)])[Len(old) + 1 - n + i]
                 /\ new[Len(new)].timestamp = conversation_memory'.clock]_vars

\* C31: with 1 <= max_recent_messages <= summarize_after, whatever the
\* earlier turns and outcomes, the history holds at most summarize_after
\* turns when run builds the prompt and until run stores its last turn, and
\* at most summarize_after + 1 turns when run has returned.
C31_HistoryBoundedByThreshold ==
    (1 <= max_recent_messages /\ max_recent_messages <= summarize_after /\ caller = "run") =>
        /\ pc \in {"build_prompt", "while", "call_llm", "except", "parse", "execute"} =>
              Len(history) <= summarize_after
        /\ (pc = "returned" /\ outcome \in RunOutcomes) =>
              Len(history) <= summarize_after + 1

\* C31 witness: a run that found more turns than the threshold compacted
\* them and has returned with threshold + 1 turns in the history.
C31_Witness ==
    /\ 1 <= max_recent_messages /\ max_recent_messages <= summarize_after
    /\ caller = "run" /\ pc = "returned" /\ outcome \in RunOutcomes
    /\ summarize_calls = 1
    /\ summary # << >>
    /\ Len(history) = summarize_after + 1

\* C32: before every gateway call after the first of a run, each tool_calls
\* entry of each assistant turn appended to the prompt, whether or not its
\* arguments decoded, is followed by exactly one tool turn carrying the id
\* of that entry, among the tool turns that follow the assistant turn.
C32_EveryRequestedCallIsAnswered ==
    (caller = "run" /\ pc = "call_llm" /\ iteration >= 2) =>
        \A j \in 1..Len(messages) :
           (messages[j].role = "assistant" /\ messages[j].tool_calls.tag = "list") =>
              \A k \in 1..Len(messages[j].tool_calls.val) :
                 Cardinality({i \in (j + 1)..Len(messages) :
                                 /\ \A n \in (j + 1)..i : messages[n].role = "tool"
                                 /\ messages[i].tool_call_id =
                                        messages[j].tool_calls.val[k].id}) = 1

C34_RunResourcesBounded ==
    /\ [](caller = "run" =>
              /\ gateway_calls <= max_iterations
              /\ attempts_made <= max_iterations * max_retries
              /\ attempts_made <= gateway_calls * max_retries
              /\ summarize_calls <= 1)
    /\ []((caller = "run" /\ pc = "returned") => outcome \in RunOutcomes)
    /\ [][(caller = "run" /\ pc = "returned") =>
              /\ gateway_calls' <= gateway_calls
              /\ attempts_made' <= attempts_made
              /\ summarize_calls' <= summarize_calls]_vars

\* C35: the titles of the user text are merged only by the step that
\* returns the final answer; every other step of a run changes
\* movies_discussed and movie_context only by recording a titled movie from
\* a tool result under its title, never removes an entry, and when run ends
\* in GATEWAY_FAILURE or ITERATION_LIMIT_REACHED every titled movie returned
\* by a tool during the run is listed and has a payload.
C35_ErrorPathsKeepRecordedMovies ==
    /\ []((caller = "run" /\ pc = "returned"
           /\ outcome \in {"GATEWAY_FAILURE", "ITERATION_LIMIT_REACHED"}) =>
              \A i \in 1..Len(messages) :
                 (messages[i].role = "tool" /\ IsTitledMovieResult(messages[i].content)) =>
                       /\ messages[i].content[2] \in Range(movies_discussed)
                       /\ messages[i].content[2] \in DOMAIN movie_context
                       /\ movie_context[messages[i].content[2]].Title = messages[i].content[2])
    /\ [][(caller' = "run" /\ pc # "returned") =>
              /\ IsPrefix(movies_discussed, movies_discussed')
              /\ DOMAIN movie_context \subseteq DOMAIN movie_context'
              /\ (movies_discussed' # movies_discussed \/ movie_context' # movie_context) =>
                    \/ /\ pc = "execute"
                       /\ IsTitledMovieResult(messages'[Len(messages')].content)
                       /\ Range(movies_discussed') =
                              Range(movies_discussed) \cup {messages'[Len(messages')].content[2]}
                       /\ DOMAIN movie_context' =
                              DOMAIN movie_context \cup {messages'[Len(messages')].content[2]}
                    \/ /\ pc = "parse" /\ outcome' = "FINAL_ANSWER"
                       /\ movie_context' = movie_context]_vars

\* C35 witness: a run about Inception, started with Heat on record, recorded
\* Inception from a tool result in its first iteration and ended in its
\* second with a gateway failure or at the iteration limit; both are listed
\* with their payloads.
C35_Witness ==
    /\ caller = "run" /\ pc = "returned" /\ iteration = 2
    /\ outcome \in {"GATEWAY_FAILURE", "ITERATION_LIMIT_REACHED"}
    /\ user_input = <<"Tell me about Inception">>
    /\ movies_discussed = <<"Heat", "Inception">>
    /\ DOMAIN movie_context = {"Heat", "Inception"}

====
